---- MODULE Spec2Model ----
(***************************************************************************)
(* Model of the PII detection and redaction core:                          *)
(*   src/src/simple_pii_detector.py    SimplePIIDetector                   *)
(*   src/src/simple_redaction_engine.py SimpleRedactionEngine              *)
(*                                                                         *)
(* Conventions.  A Python str is a sequence of one-character strings.  A   *)
(* Python dict is a function whose DOMAIN is the set of keys present, so   *)
(* d.get(k, default) and the KeyError of d[k] are both expressible.        *)
(* Confidences are integers in hundredths (0.95 is 95).  Offsets are       *)
(* 0-based as in Python; sequences are 1-based as in TLA+.                 *)
(***************************************************************************)
EXTENDS Integers, Sequences, FiniteSets, TLC

\* ------------------------------------------------------------------ bounds
\* Length of the text handed to detect_pii / apply_redactions.
MaxLen == 3
\* Largest number of raw matches the rule loop of detect_pii emits.
MaxRaw == 3
\* Largest number of detection records handed to apply_redactions.
MaxDet == 2

\* ---------------------------------------------------------------- helpers
Min(a, b) == IF a < b THEN a ELSE b

Range(s) == {s[i] : i \in DOMAIN s}

\* dict.get(k, default)
Get(d, k, default) == IF k \in DOMAIN d THEN d[k] ELSE default

\* s[:n] and s[n:] for n >= 0 (Python clamps n to len(s))
Take(s, n) == SubSeq(s, 1, Min(n, Len(s)))
Drop(s, n) == SubSeq(s, Min(n, Len(s)) + 1, Len(s))

\* s[a:b] for 0 <= a, 0 <= b
Slice(s, a, b) == SubSeq(s, Min(a, Len(s)) + 1, Min(b, Len(s)))

\* c * n : the one-character string c repeated n times
Repeat(c, n) == [i \in 1..n |-> c]

\* The characters of the input text: position i holds a letter of its own,
\* so a character that moves or disappears is visible in the output.
Alphabet == <<"a", "b", "c", "d", "e", "f", "g", "h">>
SourceText == [i \in 1..MaxLen |-> Alphabet[((i - 1) % Len(Alphabet)) + 1]]

\* All [start, end) spans of the text with 0 <= start < end <= len(text).
Spans == {sp \in (0..MaxLen) \X (0..MaxLen) : sp[1] < sp[2]}

\* ================================================================ DETECTOR
\* self.patterns, in insertion (= iteration) order.
RuleOrder == <<"email", "phone", "ssn", "credit_card", "zip_code",
               "date_of_birth", "name">>

\* self.patterns[t]['confidence'], in hundredths.
RuleConfidence ==
    [email |-> 95, phone |-> 90, ssn |-> 98, credit_card |-> 85,
     zip_code |-> 70, date_of_birth |-> 60, name |-> 50]

RuleIndex(t) == CHOOSE i \in DOMAIN RuleOrder : RuleOrder[i] = t

\* The detection dict built for one regex match of rule t over [s, e).
MakeDetection(t, s, e) ==
    [text |-> Slice(SourceText, s, e), type |-> t,
     confidence |-> RuleConfidence[t], start |-> s, end |-> e]

\* detection['start'] < existing['end'] and detection['end'] > existing['start']
Overlaps(detection, existing) ==
    /\ detection.start < existing.end
    /\ detection.end > existing.start

\* list.sort(key=lambda x: x['start']): stable, ascending by start.
RECURSIVE InsertByStart(_, _)
InsertByStart(sorted, d) ==
    IF sorted = << >> THEN <<d>>
    ELSE IF sorted[Len(sorted)].start <= d.start THEN Append(sorted, d)
    ELSE Append(InsertByStart(SubSeq(sorted, 1, Len(sorted) - 1), d),
                sorted[Len(sorted)])

RECURSIVE SortByStartFrom(_, _, _)
SortByStartFrom(detections, i, acc) ==
    IF i > Len(detections) THEN acc
    ELSE SortByStartFrom(detections, i + 1, InsertByStart(acc, detections[i]))

\* A detector that forgets to sort: the walk runs in rule order.
SortByStartMissing(detections) == detections

SortByStart(detections) == SortByStartFrom(detections, 1, << >>)

\* Index of the first entry of filtered that overlaps detection, 0 if none
\* (the inner for loop, which breaks at the first overlap).
FirstOverlap(filtered, detection) ==
    IF \E i \in DOMAIN filtered : Overlaps(detection, filtered[i])
    THEN CHOOSE i \in DOMAIN filtered :
            /\ Overlaps(detection, filtered[i])
            /\ \A j \in 1..(i - 1) : ~Overlaps(detection, filtered[j])
    ELSE 0

\* filtered.remove(existing): drops the first element equal to existing.
RemoveFirst(s, x) ==
    LET i == CHOOSE k \in DOMAIN s : s[k] = x /\ \A j \in 1..(k - 1) : s[j] # x
    IN  SubSeq(s, 1, i - 1) \o SubSeq(s, i + 1, Len(s))

\* A walk that never evicts: whatever was accepted first stays.
OverlapStepFirstStays(filtered, detection) ==
    LET i == FirstOverlap(filtered, detection) IN
    IF i = 0 THEN Append(filtered, detection) ELSE filtered

\* One iteration of the outer loop of _remove_overlaps.
OverlapStep(filtered, detection) ==
    LET i == FirstOverlap(filtered, detection) IN
    IF i = 0 THEN Append(filtered, detection)
    ELSE IF detection.confidence > filtered[i].confidence
         THEN Append(RemoveFirst(filtered, filtered[i]), detection)
         ELSE filtered

RECURSIVE OverlapWalk(_, _, _)
OverlapWalk(sorted, i, filtered) ==
    IF i > Len(sorted) THEN filtered
    ELSE OverlapWalk(sorted, i + 1, OverlapStep(filtered, sorted[i]))

RemoveOverlaps(detections) ==
    IF detections = << >> THEN detections
    ELSE OverlapWalk(SortByStart(detections), 1, << >>)

\* by_type dict of _generate_summary: its keys are the types that occur.
DetectionsByType(detections) ==
    [t \in {detections[i].type : i \in DOMAIN detections} |->
        Cardinality({i \in DOMAIN detections : detections[i].type = t})]

GenerateSummary(detections) ==
    [total_detections |-> Len(detections),
     high_confidence |->
        Cardinality({i \in DOMAIN detections : detections[i].confidence >= 80}),
     by_type |-> DetectionsByType(detections)]

\* What detect_pii returns once the rule loop has collected `detections`.
DetectReturn(detections) ==
    LET kept == RemoveOverlaps(detections) IN
    [status |-> "ok", detections |-> kept, summary |-> GenerateSummary(kept)]

\* An exception raised by re.finditer leaves detect_pii: there is no handler.
DetectRaise(t) == [status |-> "raised", rule |-> t]

\* ------------------------------------------------ get_redaction_suggestions
HighRiskTypes == {"ssn", "credit_card"}
MediumRiskTypes == {"email", "phone", "date_of_birth"}

\* len([d for d in detections if d['confidence'] >= 0.8])
HighConfidenceCount(detections) ==
    Cardinality({i \in DOMAIN detections : detections[i].confidence >= 80})

\* A risk assessment that wants more than three high-confidence detections.
RiskLevelMoreThanThree(detections) ==
    IF \E i \in DOMAIN detections : detections[i].type \in HighRiskTypes
    THEN "high"
    ELSE IF \/ \E i \in DOMAIN detections :
                    detections[i].type \in MediumRiskTypes
            \/ HighConfidenceCount(detections) > 3
         THEN "medium"
         ELSE "low"

\* risk_level: 'low' unless the if / elif of the assessment says otherwise.
RiskLevel(detections) ==
    IF \E i \in DOMAIN detections : detections[i].type \in HighRiskTypes
    THEN "high"
    ELSE IF \/ \E i \in DOMAIN detections :
                    detections[i].type \in MediumRiskTypes
            \/ HighConfidenceCount(detections) >= 3
         THEN "medium"
         ELSE "low"

\* [d for d in detections if d['confidence'] >= 0.8 or d['type'] in
\* high_risk_types], built left to right.
RECURSIVE PriorityItemsFrom(_, _)
PriorityItemsFrom(detections, i) ==
    IF i > Len(detections) THEN << >>
    ELSE LET d == detections[i] IN
         (IF d.confidence >= 80 \/ d.type \in HighRiskTypes
          THEN <<d>> ELSE << >>)
         \o PriorityItemsFrom(detections, i + 1)

PriorityItems(detections) == PriorityItemsFrom(detections, 1)

\* type_counts: how many detections carry each type that occurs.
TypeCounts(detections) == DetectionsByType(detections)

\* The suggestion sentences, each as the sentence's kind and the count it
\* prints (0 where the sentence prints none).
Suggestions(detections) ==
    LET counts == TypeCounts(detections)
        about(t) == IF t \in DOMAIN counts
                    THEN <<[about |-> t, count |-> counts[t]]>> ELSE << >>
        listed == about("ssn") \o about("email") \o about("credit_card")
                  \o (IF HighConfidenceCount(detections) >= 5
                      THEN <<[about |-> "high_volume", count |-> 0]>>
                      ELSE << >>)
    IN  IF listed = << >> THEN <<[about |-> "review", count |-> 0]>>
        ELSE listed

GetRedactionSuggestions(detections) ==
    IF detections = << >>
    THEN [risk_level |-> "low", priority_items |-> << >>,
          suggestions |-> <<[about |-> "nothing_detected", count |-> 0]>>]
    ELSE [risk_level |-> RiskLevel(detections),
          priority_items |-> PriorityItems(detections),
          suggestions |-> Suggestions(detections)]

\* ========================================================= PATTERN MATCHING
\* The characters of a string literal.
Chars(str) == [i \in 1..Len(str) |-> SubSeq(str, i, i)]

LowerLetters == Chars("abcdefghijklmnopqrstuvwxyz")
UpperLetters == Chars("ABCDEFGHIJKLMNOPQRSTUVWXYZ")
Lower == Range(LowerLetters)
Upper == Range(UpperLetters)
Digits == Range(Chars("0123456789"))
\* \s
Whitespace == {" ", "\t", "\n", "\r", "\f"}
\* \w
WordChars == Lower \cup Upper \cup Digits \cup {"_"}

\* The other case of a letter; any other character is its own.
SwapCase(c) ==
    IF c \in Lower THEN UpperLetters[CHOOSE i \in 1..26 : LowerLetters[i] = c]
    ELSE IF c \in Upper THEN LowerLetters[CHOOSE i \in 1..26 : UpperLetters[i] = c]
    ELSE c

\* Membership of c in a character class under re.IGNORECASE.
InClass(c, class) == c \in class \/ SwapCase(c) \in class

\* \b at offset i: exactly one of the characters around i is a word character.
AtWordBoundary(txt, i) ==
    LET before == i >= 1 /\ txt[i] \in WordChars
        after == i < Len(txt) /\ txt[i + 1] \in WordChars
    IN  before # after

\* Pattern nodes.
Set(class) == [op |-> "set", class |-> class]
Lit(c) == [op |-> "set", class |-> {c}]
WordBoundary == [op |-> "wb"]
Cat(parts) == [op |-> "cat", parts |-> parts]
Alt(alts) == [op |-> "alt", alts |-> alts]
\* x{lo,hi}, greedy; hi = -1 stands for no upper limit.
Rep(sub, lo, hi) == [op |-> "rep", sub |-> sub, lo |-> lo, hi |-> hi]
Opt(sub) == Rep(sub, 0, 1)
Plus(sub) == Rep(sub, 1, -1)
Times(sub, n) == Rep(sub, n, n)

\* The offsets at which a match of node that starts at offset i can end, in
\* the order the backtracking matcher tries them: the first is the match.
RECURSIVE Ends(_, _, _)
RECURSIVE CatEnds(_, _, _, _)
RECURSIVE CatOver(_, _, _, _, _)
RECURSIVE AltEnds(_, _, _, _)
RECURSIVE RepEnds(_, _, _, _)
RECURSIVE RepOver(_, _, _, _, _)

Ends(node, txt, i) ==
    CASE node.op = "set" ->
            IF i < Len(txt) /\ InClass(txt[i + 1], node.class)
            THEN <<i + 1>> ELSE << >>
      [] node.op = "wb" -> IF AtWordBoundary(txt, i) THEN <<i>> ELSE << >>
      [] node.op = "cat" -> CatEnds(node.parts, 1, txt, i)
      [] node.op = "alt" -> AltEnds(node.alts, 1, txt, i)
      [] node.op = "rep" -> RepEnds(node, 0, txt, i)

\* parts[k..] matched from offset i.
CatEnds(parts, k, txt, i) ==
    IF k > Len(parts) THEN <<i>>
    ELSE CatOver(Ends(parts[k], txt, i), 1, parts, k, txt)

CatOver(ends, j, parts, k, txt) ==
    IF j > Len(ends) THEN << >>
    ELSE CatEnds(parts, k + 1, txt, ends[j]) \o CatOver(ends, j + 1, parts, k, txt)

AltEnds(alts, k, txt, i) ==
    IF k > Len(alts) THEN << >>
    ELSE Ends(alts[k], txt, i) \o AltEnds(alts, k + 1, txt, i)

\* node.sub already matched `count` times, the last one ending at i: more
\* repetitions are tried before stopping here.
RepEnds(node, count, txt, i) ==
    LET more == IF node.hi = -1 \/ count < node.hi
                THEN RepOver(Ends(node.sub, txt, i), 1, node, count, txt)
                ELSE << >>
        stop == IF count >= node.lo THEN <<i>> ELSE << >>
    IN  more \o stop

RepOver(ends, j, node, count, txt) ==
    IF j > Len(ends) THEN << >>
    ELSE RepEnds(node, count + 1, txt, ends[j])
            \o RepOver(ends, j + 1, node, count, txt)

Digit == Set(Digits)
Separator == Opt(Set({"-", ".", " ", "\t", "\n", "\r", "\f"}))
CardSeparator == Opt(Set({"-", " ", "\t", "\n", "\r", "\f"}))
\* [A-Z][a-z]+
CapitalizedWord == Cat(<<Set(Upper), Plus(Set(Lower))>>)

\* \b[A-Za-z0-9._%+-]+@[A-Za-z0-9.-]+\.[A-Z|a-z]{2,}\b
EmailPattern ==
    Cat(<<WordBoundary,
          Plus(Set(Lower \cup Upper \cup Digits \cup {".", "_", "%", "+", "-"})),
          Lit("@"),
          Plus(Set(Lower \cup Upper \cup Digits \cup {".", "-"})),
          Lit("."),
          Rep(Set(Upper \cup Lower \cup {"|"}), 2, -1),
          WordBoundary>>)

\* (?:\+?1[-.\s]?)?\(?([0-9]{3})\)?[-.\s]?([0-9]{3})[-.\s]?([0-9]{4})
PhonePattern ==
    Cat(<<Opt(Cat(<<Opt(Lit("+")), Lit("1"), Separator>>)),
          Opt(Lit("(")), Times(Digit, 3), Opt(Lit(")")), Separator,
          Times(Digit, 3), Separator, Times(Digit, 4)>>)

\* \b\d{3}-\d{2}-\d{4}\b
SsnPattern ==
    Cat(<<WordBoundary, Times(Digit, 3), Lit("-"), Times(Digit, 2), Lit("-"),
          Times(Digit, 4), WordBoundary>>)

\* \b\d{4}[-\s]?\d{4}[-\s]?\d{4}[-\s]?\d{4}\b
CreditCardPattern ==
    Cat(<<WordBoundary, Times(Digit, 4), CardSeparator, Times(Digit, 4),
          CardSeparator, Times(Digit, 4), CardSeparator, Times(Digit, 4),
          WordBoundary>>)

\* \b\d{5}(?:-\d{4})?\b
ZipCodePattern ==
    Cat(<<WordBoundary, Times(Digit, 5),
          Opt(Cat(<<Lit("-"), Times(Digit, 4)>>)), WordBoundary>>)

\* \b(?:0[1-9]|1[0-2])[/-](?:0[1-9]|[12]\d|3[01])[/-](?:19|20)\d{2}\b
DateOfBirthPattern ==
    Cat(<<WordBoundary,
          Alt(<<Cat(<<Lit("0"), Set(Digits \ {"0"})>>),
                Cat(<<Lit("1"), Set({"0", "1", "2"})>>)>>),
          Set({"/", "-"}),
          Alt(<<Cat(<<Lit("0"), Set(Digits \ {"0"})>>),
                Cat(<<Set({"1", "2"}), Digit>>),
                Cat(<<Lit("3"), Set({"0", "1"})>>)>>),
          Set({"/", "-"}),
          Alt(<<Cat(<<Lit("1"), Lit("9")>>), Cat(<<Lit("2"), Lit("0")>>)>>),
          Times(Digit, 2),
          WordBoundary>>)

\* A name rule that stops after the second word.
NamePatternTwoWords ==
    Cat(<<WordBoundary, CapitalizedWord, Lit(" "), CapitalizedWord,
          WordBoundary>>)

\* \b[A-Z][a-z]+ [A-Z][a-z]+(?:\s[A-Z][a-z]+)?\b
NamePattern ==
    Cat(<<WordBoundary, CapitalizedWord, Lit(" "), CapitalizedWord,
          Opt(Cat(<<Set(Whitespace), CapitalizedWord>>)), WordBoundary>>)

\* self.patterns[t]['pattern']
RulePattern ==
    [email |-> EmailPattern, phone |-> PhonePattern, ssn |-> SsnPattern,
     credit_card |-> CreditCardPattern, zip_code |-> ZipCodePattern,
     date_of_birth |-> DateOfBirthPattern, name |-> NamePattern]

\* re.finditer(pattern, text, re.IGNORECASE) from offset i on: the spans of
\* the matches, left to right; the scan resumes where a match ended.  No
\* catalog pattern matches the empty string.
RECURSIVE FindIter(_, _, _)
FindIter(pattern, txt, i) ==
    IF i > Len(txt) THEN << >>
    ELSE LET ends == Ends(pattern, txt, i) IN
         IF ends = << >> THEN FindIter(pattern, txt, i + 1)
         ELSE << <<i, ends[1]>> >> \o FindIter(pattern, txt, ends[1])

\* The detection dict built for one regex match of rule t over [s, e) of txt.
DetectionIn(txt, t, s, e) ==
    [text |-> Slice(txt, s, e), type |-> t,
     confidence |-> RuleConfidence[t], start |-> s, end |-> e]

\* The detections one pass of the rule loop appends for rule t.
RuleDetections(txt, t) ==
    LET spans == FindIter(RulePattern[t], txt, 0)
    IN  [k \in DOMAIN spans |-> DetectionIn(txt, t, spans[k][1], spans[k][2])]

\* ================================================================ REDACTOR
\* self.redaction_styles: the replacement character of a style.  "#" stands
\* for the full block U+2588; 'labels' maps to True, which is no character.
BlockChar == "#"
StarChar == "*"
RedactionStyles ==
    [black_bars |-> BlockChar, asterisks |-> StarChar, labels |-> TRUE]

Str_REDACTED == <<"R", "E", "D", "A", "C", "T", "E", "D">>
LabelOf(word) == <<"[">> \o word \o <<"_">> \o Str_REDACTED \o <<"]">>

\* self.type_labels
TypeLabels ==
    [name |-> LabelOf(<<"N", "A", "M", "E">>),
     email |-> LabelOf(<<"E", "M", "A", "I", "L">>),
     phone |-> LabelOf(<<"P", "H", "O", "N", "E">>),
     ssn |-> LabelOf(<<"S", "S", "N">>),
     credit_card |-> LabelOf(<<"C", "A", "R", "D">>),
     zip_code |-> LabelOf(<<"Z", "I", "P">>),
     date_of_birth |-> LabelOf(<<"D", "O", "B">>)]

\* '[REDACTED]'
DefaultLabel == <<"[">> \o Str_REDACTED \o <<"]">>

\* The options apply_redactions uses when it is given none (None or {}).
DefaultOptions ==
    [style |-> "black_bars", preserve_length |-> TRUE,
     confidence_threshold |-> 0]

\* _generate_replacement that pads by one character.
GenerateReplacementOffByOne(original_text, pii_type, options) ==
    LET style == Get(options, "style", "black_bars")
        preserve_length == Get(options, "preserve_length", TRUE)
    IN  IF style = "labels" THEN Get(TypeLabels, pii_type, DefaultLabel)
        ELSE IF preserve_length
        THEN Repeat(Get(RedactionStyles, style, BlockChar),
                    Len(original_text) + 1)
        ELSE IF style = "black_bars" THEN Repeat(BlockChar, 8)
        ELSE IF style = "asterisks" THEN Repeat(StarChar, 8)
        ELSE DefaultLabel

\* _generate_replacement whose labels branch ignores the type.
GenerateReplacementOneLabel(original_text, pii_type, options) ==
    LET style == Get(options, "style", "black_bars")
        preserve_length == Get(options, "preserve_length", TRUE)
    IN  IF style = "labels" THEN DefaultLabel
        ELSE IF preserve_length
        THEN Repeat(Get(RedactionStyles, style, BlockChar), Len(original_text))
        ELSE IF style = "black_bars" THEN Repeat(BlockChar, 8)
        ELSE IF style = "asterisks" THEN Repeat(StarChar, 8)
        ELSE DefaultLabel

\* _generate_replacement
GenerateReplacement(original_text, pii_type, options) ==
    LET style == Get(options, "style", "black_bars")
        preserve_length == Get(options, "preserve_length", TRUE)
    IN  IF style = "labels" THEN Get(TypeLabels, pii_type, DefaultLabel)
        ELSE IF preserve_length
        THEN Repeat(Get(RedactionStyles, style, BlockChar), Len(original_text))
        ELSE IF style = "black_bars" THEN Repeat(BlockChar, 8)
        ELSE IF style = "asterisks" THEN Repeat(StarChar, 8)
        ELSE DefaultLabel

\* `if not redaction_options:` replaces None and {} by the defaults.
EffectiveOptions(redaction_options) ==
    IF DOMAIN redaction_options = {} THEN DefaultOptions ELSE redaction_options

\* A filter that lets a detection at exactly the threshold drop.
PassesThresholdStrict(d, options) ==
    Get(d, "confidence", 0) > Get(options, "confidence_threshold", 0)

\* d.get('confidence', 0) >= redaction_options.get('confidence_threshold', 0)
PassesThreshold(d, options) ==
    Get(d, "confidence", 0) >= Get(options, "confidence_threshold", 0)

\* A filter step that keeps every detection.
FilterDetectionsKeepAll(detections, options) == detections

\* filtered_detections = [d for d in detections if ...]
FilterDetections(detections, options) ==
    SelectSeq(detections, LAMBDA d : PassesThreshold(d, options))

\* Stable insertion for sort(key=start, reverse=True): d goes behind every
\* entry whose start is >= its own.
RECURSIVE InsertByStartDesc(_, _)
InsertByStartDesc(sorted, d) ==
    IF sorted = << >> THEN <<d>>
    ELSE IF Get(sorted[Len(sorted)], "start", 0) >= Get(d, "start", 0)
         THEN Append(sorted, d)
    ELSE Append(InsertByStartDesc(SubSeq(sorted, 1, Len(sorted) - 1), d),
                sorted[Len(sorted)])

RECURSIVE InsertByStartAsc(_, _)
InsertByStartAsc(sorted, d) ==
    IF sorted = << >> THEN <<d>>
    ELSE IF Get(sorted[Len(sorted)], "start", 0) <= Get(d, "start", 0)
         THEN Append(sorted, d)
    ELSE Append(InsertByStartAsc(SubSeq(sorted, 1, Len(sorted) - 1), d),
                sorted[Len(sorted)])

RECURSIVE SortDescFrom(_, _, _)
SortDescFrom(detections, i, acc) ==
    IF i > Len(detections) THEN acc
    ELSE SortDescFrom(detections, i + 1, InsertByStartDesc(acc, detections[i]))

RECURSIVE SortAscFrom(_, _, _)
SortAscFrom(detections, i, acc) ==
    IF i > Len(detections) THEN acc
    ELSE SortAscFrom(detections, i + 1, InsertByStartAsc(acc, detections[i]))

\* A sort that lost reverse=True: substitutions run left to right.
SortByStartAscending(detections) == SortAscFrom(detections, 1, << >>)

\* filtered_detections.sort(key=lambda x: x.get('start', 0), reverse=True)
SortByStartDescending(detections) == SortDescFrom(detections, 1, << >>)

\* The body of the substitution loop for one detection.  The default of
\* detection.get('end', len(detection['text'])) is evaluated before the
\* lookup, so a record without 'text' raises KeyError even when it has an
\* 'end'; detection['type'] raises next.
RedactOne(acc, detection, options) ==
    IF "text" \notin DOMAIN detection THEN [status |-> "KeyError", key |-> "text"]
    ELSE IF "type" \notin DOMAIN detection
         THEN [status |-> "KeyError", key |-> "type"]
    ELSE
        LET start == Get(detection, "start", 0)
            end == Get(detection, "end", Len(detection.text))
            original_text == detection.text
            pii_type == detection.type
            replacement == GenerateReplacement(original_text, pii_type, options)
        IN  [status |-> "ok",
             redacted_text |->
                Take(acc.redacted_text, start) \o replacement
                    \o Drop(acc.redacted_text, end),
             redacted_items |->
                Append(acc.redacted_items,
                       [original_text |-> original_text,
                        type |-> pii_type,
                        confidence |-> Get(detection, "confidence", 0),
                        position |-> [start |-> start, end |-> end],
                        replacement |-> replacement])]

\* for detection in filtered_detections: ...  (an exception ends the loop)
RECURSIVE RedactLoop(_, _, _, _)
RedactLoop(sorted, i, acc, options) ==
    IF acc.status # "ok" \/ i > Len(sorted) THEN acc
    ELSE RedactLoop(sorted, i + 1, RedactOne(acc, sorted[i], options), options)

\* _count_by_type
CountByType(redacted_items) ==
    [t \in {redacted_items[i].type : i \in DOMAIN redacted_items} |->
        Cardinality({i \in DOMAIN redacted_items : redacted_items[i].type = t})]

\* A bucket count whose medium bucket starts just above 0.5.
CountByConfidenceOpenMedium(redacted_items) ==
    LET conf(i) == Get(redacted_items[i], "confidence", 0)
        idx == DOMAIN redacted_items
    IN  [high |-> Cardinality({i \in idx : conf(i) >= 80}),
         medium |-> Cardinality({i \in idx : conf(i) < 80 /\ conf(i) > 50}),
         low |-> Cardinality({i \in idx : conf(i) < 50})]

\* _count_by_confidence
CountByConfidence(redacted_items) ==
    LET conf(i) == Get(redacted_items[i], "confidence", 0)
        idx == DOMAIN redacted_items
    IN  [high |-> Cardinality({i \in idx : conf(i) >= 80}),
         medium |-> Cardinality({i \in idx : conf(i) < 80 /\ conf(i) >= 50}),
         low |-> Cardinality({i \in idx : conf(i) < 50})]

\* An audit trail that also stamps the options it records.
GenerateAuditTrailStampedOptions(original_text, redacted_text, redacted_items, redaction_options, now) ==
    [timestamp |-> now,
     redaction_options |-> redaction_options @@ [stamped_at |-> now],
     original_length |-> Len(original_text),
     redacted_length |-> Len(redacted_text),
     redacted_items |-> redacted_items,
     summary |-> [total_redactions |-> Len(redacted_items),
                  by_type |-> CountByType(redacted_items),
                  by_confidence |-> CountByConfidence(redacted_items)]]

\* _generate_audit_trail; now is the value datetime.now() returns.
GenerateAuditTrail(original_text, redacted_text, redacted_items, redaction_options, now) ==
    [timestamp |-> now,
     redaction_options |-> redaction_options,
     original_length |-> Len(original_text),
     redacted_length |-> Len(redacted_text),
     redacted_items |-> redacted_items,
     summary |-> [total_redactions |-> Len(redacted_items),
                  by_type |-> CountByType(redacted_items),
                  by_confidence |-> CountByConfidence(redacted_items)]]

\* apply_redactions: the value it returns, or the KeyError it raises.
ApplyRedactions(text, detections, redaction_options, now) ==
    LET options == EffectiveOptions(redaction_options)
        filtered_detections ==
            SortByStartDescending(FilterDetections(detections, options))
        loop == RedactLoop(filtered_detections, 1,
                           [status |-> "ok", redacted_text |-> text,
                            redacted_items |-> << >>], options)
    IN  IF loop.status # "ok" THEN loop
        ELSE [status |-> "ok",
              redacted_text |-> loop.redacted_text,
              redacted_items |-> loop.redacted_items,
              audit_trail |->
                GenerateAuditTrail(text, loop.redacted_text,
                                   loop.redacted_items, options, now),
              summary |-> [total_redactions |-> Len(loop.redacted_items),
                           by_type |-> CountByType(loop.redacted_items)]]

\* ============================================================ STATE MACHINE
VARIABLES
    detections,    \* detect_pii: the raw matches collected by the rule loop
    dpc,           \* detect_pii: "scanning", "returned" or "raised"
    failedRule,    \* detect_pii: the rule whose matching raised, or "none"
    detectResult,  \* detect_pii: what the call gave its caller
    text,          \* detect_pii: the text it was given
    ruleIdx,       \* detect_pii: position of the rule loop in the catalog
    advice,        \* get_redaction_suggestions: its argument and its result
    call,          \* apply_redactions: the first invocation, inputs and result
    again,         \* apply_redactions: the result of invoking it again
    clock          \* the wall clock read by datetime.now()

vars ==
    <<detections, dpc, failedRule, detectResult, text, ruleIdx, advice, call,
      again, clock>>
detectVars == <<detections, dpc, failedRule, detectResult, text, ruleIdx>>
scanVars == <<text, ruleIdx>>
redactVars == <<call, again, clock>>
adviceVars == <<advice>>

NoResult == [status |-> "none"]
NoCall == [phase |-> "idle"]
NoAdvice == [phase |-> "idle"]

Init ==
    /\ detections = << >>
    /\ dpc = "scanning"
    /\ failedRule = "none"
    /\ detectResult = NoResult
    /\ text = SourceText
    /\ ruleIdx = 1
    /\ advice = NoAdvice
    /\ call = NoCall
    /\ again = NoResult
    /\ clock = 0

\* ---------------------------------------------------------------- detect_pii
\* The rule whose matches are being appended: rules run in catalog order,
\* so a later match comes from the same rule or from a later one.
CurrentRuleIndex ==
    IF detections = << >> THEN 1
    ELSE RuleIndex(detections[Len(detections)].type)

\* re.finditer yields the next match of rule t: matches of one rule come
\* left to right and do not overlap.
EmitMatch(t, s, e) ==
    /\ dpc = "scanning"
    /\ Len(detections) < MaxRaw
    /\ RuleIndex(t) >= CurrentRuleIndex
    /\ (detections # << >> /\ detections[Len(detections)].type = t)
            => s >= detections[Len(detections)].end
    /\ detections' = Append(detections, MakeDetection(t, s, e))
    /\ UNCHANGED <<dpc, failedRule, detectResult, scanVars, redactVars, adviceVars>>

\* re.finditer raises while rule t is being matched: nothing in detect_pii
\* catches it.
RuleFails(t) ==
    /\ dpc = "scanning"
    /\ RuleIndex(t) >= CurrentRuleIndex
    /\ dpc' = "raised"
    /\ failedRule' = t
    /\ detectResult' = DetectRaise(t)
    /\ UNCHANGED <<detections, scanVars, redactVars, adviceVars>>

\* Every rule is exhausted: overlaps are removed and the result returned.
DetectFinish ==
    /\ dpc = "scanning"
    /\ dpc' = "returned"
    /\ detectResult' = DetectReturn(detections)
    /\ UNCHANGED <<detections, failedRule, scanVars, redactVars, adviceVars>>

DetectNext ==
    \/ \E t \in Range(RuleOrder), sp \in Spans : EmitMatch(t, sp[1], sp[2])
    \/ \E t \in Range(RuleOrder) : RuleFails(t)
    \/ DetectFinish

SpecDetect == Init /\ [][DetectNext]_vars

\* detect_pii where only four of the rules find matches and none raises: as
\* many rules as a raw list has matches, with catalog confidences that do not
\* follow the catalog order.
ReorderRules == {"email", "ssn", "zip_code", "name"}

ReorderNext ==
    \/ \E t \in ReorderRules, sp \in Spans : EmitMatch(t, sp[1], sp[2])
    \/ DetectFinish

SpecReorder == Init /\ [][ReorderNext]_vars

\* ------------------------------------------------- detect_pii on given texts
\* Texts handed to detect_pii: an opening, a body and a closing.
ScanOpenings == {"", "Contact ", "Card: "}
ScanBodies ==
    {"John Smith at john.smith@example.com or 555-123-4567",
     "4111111111111111",
     "123-45-6789, Card: 4111 1111 1111 1111",
     "123-45-6789 4111111111111111",
     "to bob+123-45-6789@x.co",
     "12345-6789",
     "01/31/1990",
     ""}
ScanClosings == {"", "."}
ScanTexts ==
    {Chars(a) \o Chars(b) \o Chars(c) :
        a \in ScanOpenings, b \in ScanBodies, c \in ScanClosings}

InitScan ==
    /\ detections = << >>
    /\ dpc = "scanning"
    /\ failedRule = "none"
    /\ detectResult = NoResult
    /\ text \in ScanTexts
    /\ ruleIdx = 1
    /\ advice = NoAdvice
    /\ call = NoCall
    /\ again = NoResult
    /\ clock = 0

\* One pass of the rule loop: every match of the next catalog rule is
\* appended.
ScanRule ==
    /\ dpc = "scanning"
    /\ ruleIdx <= Len(RuleOrder)
    /\ detections' = detections \o RuleDetections(text, RuleOrder[ruleIdx])
    /\ ruleIdx' = ruleIdx + 1
    /\ UNCHANGED <<dpc, failedRule, detectResult, text, redactVars, adviceVars>>

\* The rule loop is over: overlaps are removed and the result returned.
ScanFinish ==
    /\ dpc = "scanning"
    /\ ruleIdx > Len(RuleOrder)
    /\ dpc' = "returned"
    /\ detectResult' = DetectReturn(detections)
    /\ UNCHANGED <<detections, failedRule, scanVars, redactVars, adviceVars>>

ScanNext == ScanRule \/ ScanFinish

SpecScan == InitScan /\ [][ScanNext]_vars

\* ---------------------------------------------------------- apply_redactions
\* The types a caller's records carry: the catalog's, and one the label
\* table does not know.
RecordTypes == Range(RuleOrder) \cup {"organization"}

Fields == {"text", "type", "confidence", "start", "end"}

\* A complete record over span sp of the text, as the detector builds it.
FullRecord(t, sp) ==
    [text |-> Slice(SourceText, sp[1], sp[2]), type |-> t,
     confidence |-> Get(RuleConfidence, t, 30), start |-> sp[1], end |-> sp[2]]

\* The record without the keys in drop.
Without(d, drop) == [k \in (DOMAIN d) \ drop |-> d[k]]

\* Keys a caller-edited record may lack.
DropSets ==
    {{"end"}, {"text"}, {"type"}, {"confidence"}, {"start"},
     {"text", "confidence"}, {"type", "confidence"}, {"end", "confidence"}}

EditedRecords ==
    {Without(FullRecord(t, sp), drop) :
        t \in {"ssn", "name"}, sp \in Spans, drop \in DropSets}

Disjoint(a, b) == a[2] <= b[1] \/ b[2] <= a[1]

\* Lists of n mutually non-overlapping spans, in any order.
SpanLists(n) ==
    {sl \in [1..n -> Spans] :
        \A i, j \in 1..n : i < j => Disjoint(sl[i], sl[j])}

Styles == {"black_bars", "asterisks", "labels", "blur"}
Thresholds == {0, 90}

\* Option dicts: none at all, a style alone, or all three keys.
OptionChoices ==
    {<< >>} \cup {[style |-> st] : st \in Styles}
            \cup [style : Styles, preserve_length : BOOLEAN,
                  confidence_threshold : Thresholds]

EditedOptionChoices ==
    {<< >>} \cup [style : {"black_bars", "labels"}, preserve_length : BOOLEAN,
                  confidence_threshold : Thresholds]

Invoke(dets, opts) ==
    /\ call' = [phase |-> "done", text |-> SourceText, detections |-> dets,
                options |-> opts, at |-> clock,
                result |-> ApplyRedactions(SourceText, dets, opts, clock)]
    /\ clock' = clock + 1
    /\ UNCHANGED <<again, detectVars, adviceVars>>

\* The caller passes a selection of conflict-free, complete detections.
RedactSelected ==
    /\ call = NoCall
    /\ \E n \in 0..MaxDet : \E sl \in SpanLists(n) :
        \E ty \in [1..n -> RecordTypes], opts \in OptionChoices :
            Invoke([i \in 1..n |-> FullRecord(ty[i], sl[i])], opts)

\* The caller passes records it edited: one lacks keys, and a complete
\* one beside it, before or after, may overlap it.
RedactEdited ==
    /\ call = NoCall
    /\ \E bad \in EditedRecords, n \in 0..1 :
        \E sl \in [1..n -> Spans], at \in 1..(n + 1) :
            \E opts \in EditedOptionChoices :
                Invoke([i \in 1..(n + 1) |->
                            IF i < at THEN FullRecord("name", sl[i])
                            ELSE IF i = at THEN bad
                            ELSE FullRecord("name", sl[i - 1])], opts)

\* The same call, made again later with the same arguments.
RedactAgain ==
    /\ call # NoCall
    /\ again = NoResult
    /\ again' = ApplyRedactions(call.text, call.detections, call.options, clock)
    /\ clock' = clock + 1
    /\ UNCHANGED <<call, detectVars, adviceVars>>

RedactNext == RedactSelected \/ RedactEdited \/ RedactAgain

SpecRedact == Init /\ [][RedactNext]_vars

\* ---------------------------------------------- get_redaction_suggestions
\* Detection lists handed to get_redaction_suggestions: any types, with
\* confidences on either side of 0.8 (the caller may have edited them).
MaxAdvised == 3
AdviceConfidences == {79, 80}
AdvisedRecord(t, c, k) ==
    [text |-> <<Alphabet[k]>>, type |-> t, confidence |-> c,
     start |-> k - 1, end |-> k]
\* The list of n records with the given types and confidences.
AdvisedList(n, tc) == [k \in 1..n |-> AdvisedRecord(tc[k][1], tc[k][2], k)]

Suggest ==
    /\ advice = NoAdvice
    /\ \E n \in 0..MaxAdvised :
        \E tc \in [1..n -> RecordTypes \X AdviceConfidences] :
            advice' = [phase |-> "done", detections |-> AdvisedList(n, tc),
                       result |-> GetRedactionSuggestions(AdvisedList(n, tc))]
    /\ UNCHANGED <<detectVars, redactVars>>

SuggestNext == Suggest

SpecSuggest == Init /\ [][SuggestNext]_vars

\* ================================================================== CLAIMS
\* Two detections whose [start, end) ranges do not overlap.
Apart(d1, d2) == d1.end <= d2.start \/ d2.end <= d1.start

\* C1: the detection list detect_pii returns holds no two entries whose
\* [start, end) ranges overlap, whatever raw matches the rules produced
\* (each rule's own matches being mutually non-overlapping).
C1_NoOverlapInResult ==
    dpc = "returned" =>
        \A i, j \in DOMAIN detectResult.detections :
            i # j => Apart(detectResult.detections[i], detectResult.detections[j])

\* C1 witness: a call returned two or more detections after a candidate
\* evicted an accepted detection of lower confidence that started before it.
C1_Witness ==
    /\ dpc = "returned"
    /\ Len(detectResult.detections) >= 2
    /\ \E i \in DOMAIN detections, k \in DOMAIN detectResult.detections :
        /\ detections[i] \notin Range(detectResult.detections)
        /\ Overlaps(detectResult.detections[k], detections[i])
        /\ detectResult.detections[k].start > detections[i].start
        /\ detectResult.detections[k].confidence > detections[i].confidence

\* C9: when matching fails for one rule, detect_pii still returns a
\* detections-and-summary result instead of failing as a whole.
C9_RuleFailureIsolated ==
    (dpc # "scanning" /\ failedRule # "none") => detectResult.status = "ok"

\* ---- the first apply_redactions call, as the claims read it
CallDone == call.phase = "done"
CallOk == CallDone /\ call.result.status = "ok"
UsedOptions == EffectiveOptions(call.options)
UsedStyle == Get(UsedOptions, "style", "black_bars")
UsedPreserveLength == Get(UsedOptions, "preserve_length", TRUE)
UsedThreshold == Get(UsedOptions, "confidence_threshold", 0)
MeetsThreshold(d) == Get(d, "confidence", 0) >= UsedThreshold
Items == call.result.redacted_items

\* The detections are complete records over spans of the text, carry the
\* text of their span, and do not overlap one another.
CleanInput ==
    /\ \A i \in DOMAIN call.detections :
        LET d == call.detections[i] IN
        /\ DOMAIN d = Fields
        /\ 0 <= d.start /\ d.start < d.end /\ d.end <= Len(call.text)
        /\ d.text = Slice(call.text, d.start, d.end)
    /\ \A i, j \in DOMAIN call.detections :
        i # j => Apart(call.detections[i], call.detections[j])

\* The text read left to right from offset p: a passing detection that
\* starts at p contributes its replacement and the reading resumes at its
\* end; any other character is copied.
RECURSIVE ReplacedFrom(_)
ReplacedFrom(p) ==
    IF p >= Len(call.text) THEN << >>
    ELSE LET here == {i \in DOMAIN call.detections :
                        /\ call.detections[i].start = p
                        /\ MeetsThreshold(call.detections[i])}
         IN  IF here = {} THEN <<call.text[p + 1]>> \o ReplacedFrom(p + 1)
             ELSE LET d == call.detections[CHOOSE i \in here : TRUE]
                  IN  GenerateReplacement(d.text, d.type, UsedOptions)
                        \o ReplacedFrom(d.end)

\* C2: for non-overlapping detections that carry the text of their span,
\* the redacted text is the original with every passing span replaced by
\* its replacement, in place, and every other character unchanged and in
\* order, whatever the lengths of the replacements.
C2_ReplacementsInPlace ==
    (CallDone /\ CleanInput) =>
        /\ call.result.status = "ok"
        /\ call.result.redacted_text = ReplacedFrom(0)

\* C2 witness: two spans were replaced by text of another length, the
\* left one listed first, and a character outside them was kept.
C2_Witness ==
    /\ CallOk /\ CleanInput
    /\ Len(Items) = 2
    /\ Len(call.detections) = 2
    /\ call.detections[1].start < call.detections[2].start
    /\ \A k \in DOMAIN Items :
        Len(Items[k].replacement) # Len(Items[k].original_text)
    /\ \E p \in 0..(Len(call.text) - 1) :
        \A k \in DOMAIN Items :
            p < Items[k].position.start \/ p >= Items[k].position.end

\* Detection d is recorded in redacted_items.
Recorded(d) ==
    \E k \in DOMAIN Items :
        /\ Items[k].position.start = Get(d, "start", 0)
        /\ Items[k].confidence = Get(d, "confidence", 0)
        /\ "text" \in DOMAIN d => Items[k].original_text = d.text
        /\ "type" \in DOMAIN d => Items[k].type = d.type

\* C3: a detection handed to apply_redactions appears in redacted_items if
\* and only if its confidence is at least the confidence threshold.
C3_RecordedIffAtLeastThreshold ==
    CallOk =>
        \A i \in DOMAIN call.detections :
            Recorded(call.detections[i]) <=> MeetsThreshold(call.detections[i])

\* C3 witness: under a positive threshold one detection sits exactly at the
\* threshold and is recorded, another lies below it and is not.
C3_Witness ==
    /\ CallOk
    /\ UsedThreshold > 0
    /\ \E i, j \in DOMAIN call.detections :
        /\ Get(call.detections[i], "confidence", 0) = UsedThreshold
        /\ Recorded(call.detections[i])
        /\ Get(call.detections[j], "confidence", 0) < UsedThreshold
        /\ ~Recorded(call.detections[j])

\* C4 as stated: with preserve_length true every redacted item's
\* replacement is as long as its original text, for every style.
C4_LengthPreservedEveryStyle ==
    (CallOk /\ UsedPreserveLength) =>
        \A k \in DOMAIN Items :
            Len(Items[k].replacement) = Len(Items[k].original_text)

\* C4 amended: with preserve_length true and a style other than labels,
\* every redacted item's replacement is as long as its original text.
C4_LengthPreservedUnlessLabels ==
    (CallOk /\ UsedPreserveLength /\ UsedStyle # "labels") =>
        \A k \in DOMAIN Items :
            Len(Items[k].replacement) = Len(Items[k].original_text)

\* C4 witness: a length-preserving asterisks call redacted a span of two
\* or more characters.
C4_Witness ==
    /\ CallOk /\ UsedPreserveLength /\ UsedStyle = "asterisks"
    /\ \E k \in DOMAIN Items : Len(Items[k].original_text) >= 2

\* C5: when no detection passes the confidence filter, the text comes back
\* unchanged, redacted_items is empty and the audit trail counts nothing.
C5_NothingPassesNothingChanges ==
    (CallDone /\ \A i \in DOMAIN call.detections :
                    ~MeetsThreshold(call.detections[i])) =>
        /\ call.result.status = "ok"
        /\ call.result.redacted_text = call.text
        /\ call.result.redacted_items = << >>
        /\ call.result.summary.total_redactions = 0
        /\ call.result.audit_trail.summary.total_redactions = 0
        /\ call.result.audit_trail.summary.by_confidence =
                [high |-> 0, medium |-> 0, low |-> 0]

\* C5 witness: detections were handed in and none of them passed.
C5_Witness ==
    /\ CallDone
    /\ call.detections # << >>
    /\ \A i \in DOMAIN call.detections : ~MeetsThreshold(call.detections[i])

BesidesTimestamp(r) ==
    IF r.status = "ok"
    THEN [r EXCEPT !.audit_trail = Without(@, {"timestamp"})]
    ELSE r

C7_MissingEndIsStartPlusLength ==
    (CallOk /\ Len(call.detections) = 1
        /\ DOMAIN call.detections[1] = Fields \ {"end"}
        /\ MeetsThreshold(call.detections[1])) =>
        LET d == call.detections[1] IN
        /\ Items[1].position.end = d.start + Len(d.text)
        /\ call.result.redacted_text =
                Take(call.text, d.start) \o Items[1].replacement
                    \o Drop(call.text, d.start + Len(d.text))

\* C8: apply_redactions returns a result for every detection list, also
\* when records lack text or type, under every threshold.
C8_NeverRaises ==
    CallDone => call.result.status = "ok"

\* The type-label table as the documentation states it.
StatedLabel(t) ==
    CASE t = "name" ->
            <<"[", "N", "A", "M", "E", "_", "R", "E", "D", "A", "C", "T", "E", "D", "]">>
      [] t = "email" ->
            <<"[", "E", "M", "A", "I", "L", "_", "R", "E", "D", "A", "C", "T", "E", "D", "]">>
      [] t = "phone" ->
            <<"[", "P", "H", "O", "N", "E", "_", "R", "E", "D", "A", "C", "T", "E", "D", "]">>
      [] t = "ssn" ->
            <<"[", "S", "S", "N", "_", "R", "E", "D", "A", "C", "T", "E", "D", "]">>
      [] t = "credit_card" ->
            <<"[", "C", "A", "R", "D", "_", "R", "E", "D", "A", "C", "T", "E", "D", "]">>
      [] t = "zip_code" ->
            <<"[", "Z", "I", "P", "_", "R", "E", "D", "A", "C", "T", "E", "D", "]">>
      [] t = "date_of_birth" ->
            <<"[", "D", "O", "B", "_", "R", "E", "D", "A", "C", "T", "E", "D", "]">>
      [] OTHER ->
            <<"[", "R", "E", "D", "A", "C", "T", "E", "D", "]">>

\* C10: with style labels the replacement is the stated label of the
\* item's type, [REDACTED] for an unlisted type; without length
\* preservation black_bars and asterisks give eight of their character.
C10_FixedReplacements ==
    CallOk =>
        \A k \in DOMAIN Items :
            /\ UsedStyle = "labels" =>
                Items[k].replacement = StatedLabel(Items[k].type)
            /\ (UsedStyle = "black_bars" /\ ~UsedPreserveLength) =>
                Items[k].replacement = <<"#", "#", "#", "#", "#", "#", "#", "#">>
            /\ (UsedStyle = "asterisks" /\ ~UsedPreserveLength) =>
                Items[k].replacement = <<"*", "*", "*", "*", "*", "*", "*", "*">>

\* C10 witness: a labels call with length preservation asked for labelled
\* an ssn match of one character and a match of an unlisted type.
C10_Witness ==
    /\ CallOk /\ UsedStyle = "labels" /\ UsedPreserveLength
    /\ \E k \in DOMAIN Items :
        Items[k].type = "ssn" /\ Len(Items[k].original_text) = 1
    /\ \E k \in DOMAIN Items : Items[k].type \notin DOMAIN TypeLabels

\* ------------------------------------------------------------------- C11
Returned == dpc = "returned" /\ detectResult.status = "ok"
Final == detectResult.detections
FinalOfType(t) == {i \in DOMAIN Final : Final[i].type = t}
NoTwoOverlap ==
    \A i, j \in DOMAIN Final : i # j => Apart(Final[i], Final[j])

ContactText ==
    Chars("Contact John Smith at john.smith@example.com or 555-123-4567.")

\* The e-mail and phone part of C11: exactly one email detection (0.95) over
\* the e-mail substring and exactly one phone detection (0.90) over the number.
ContactEmailAndPhone ==
    /\ \E i \in DOMAIN Final :
            /\ FinalOfType("email") = {i}
            /\ Final[i].confidence = 95
            /\ Final[i].text = Chars("john.smith@example.com")
            /\ Slice(text, Final[i].start, Final[i].end) = Final[i].text
    /\ \E i \in DOMAIN Final :
            /\ FinalOfType("phone") = {i}
            /\ Final[i].confidence = 90
            /\ Final[i].text = Chars("555-123-4567")
            /\ Slice(text, Final[i].start, Final[i].end) = Final[i].text

\* The one name detection (0.50) of the final list has the given text.
ContactNameIs(str) ==
    \E i \in DOMAIN Final :
        /\ FinalOfType("name") = {i}
        /\ Final[i].confidence = 50
        /\ Final[i].text = Chars(str)
        /\ Slice(text, Final[i].start, Final[i].end) = Final[i].text

\* C11 as stated: for "Contact John Smith at john.smith@example.com or
\* 555-123-4567." the final list holds one email detection (0.95) over the
\* e-mail substring, one phone detection (0.90) and one name detection (0.50)
\* whose text is exactly "John Smith", and no two detections overlap.
C11_NameIsJohnSmith ==
    (Returned /\ text = ContactText) =>
        /\ ContactEmailAndPhone
        /\ ContactNameIs("John Smith")
        /\ NoTwoOverlap

\* C11 amended: for the same text the final list is exactly one email
\* detection (0.95) over "john.smith@example.com", one phone detection (0.90)
\* over "555-123-4567" and one name detection (0.50) whose text is
\* "Contact John Smith" (offsets 0 to 18), and no two of them overlap.
C11_NameIsContactJohnSmith ==
    (Returned /\ text = ContactText) =>
        /\ ContactEmailAndPhone
        /\ ContactNameIs("Contact John Smith")
        /\ \E i \in DOMAIN Final :
                Final[i].type = "name" /\ Final[i].start = 0 /\ Final[i].end = 18
        /\ Len(Final) = 3
        /\ NoTwoOverlap

\* detect_pii has returned for the contact text, after the name rule matched
\* three times and two of its matches were dropped in the overlap walk.
C11_Witness ==
    /\ Returned
    /\ text = ContactText
    /\ Cardinality({i \in DOMAIN detections : detections[i].type = "name"}) = 3
    /\ Len(detections) = 5
    /\ Len(Final) = 3

\* ------------------------------------------------------------------- C12
Advised == advice.phase = "done"
AdvisedOn == advice.detections
IsPriority(d) == d.confidence >= 80 \/ d.type \in {"ssn", "credit_card"}

\* The risk level C12 states for the list handed in.
StatedRisk ==
    IF \E i \in DOMAIN AdvisedOn : AdvisedOn[i].type \in {"ssn", "credit_card"}
    THEN "high"
    ELSE IF \/ \E i \in DOMAIN AdvisedOn :
                    AdvisedOn[i].type \in {"email", "phone", "date_of_birth"}
            \/ \E hi \in SUBSET DOMAIN AdvisedOn :
                    /\ Cardinality(hi) >= 3
                    /\ \A i \in hi : AdvisedOn[i].confidence >= 80
         THEN "medium"
         ELSE "low"

\* C12: get_redaction_suggestions rates a list high if some detection is an
\* ssn or credit_card, otherwise medium if some detection is an email, phone
\* or date_of_birth or at least 3 detections have confidence >= 0.8,
\* otherwise low (the empty list is low); its priority_items are exactly the
\* detections with confidence >= 0.8 or a high-risk type, in their order.
C12_RiskAndPriority ==
    Advised =>
        LET items == advice.result.priority_items IN
        /\ advice.result.risk_level = StatedRisk
        /\ AdvisedOn = << >> => advice.result.risk_level = "low"
        /\ \A i \in DOMAIN AdvisedOn :
                IsPriority(AdvisedOn[i]) <=> AdvisedOn[i] \in Range(items)
        /\ Len(items) = Cardinality(Range(items))
        /\ Range(items) \subseteq Range(AdvisedOn)
        /\ \A i, j \in DOMAIN items :
                i < j => items[i].start < items[j].start

\* Three detections of confidence 0.8 and of no high-risk or medium-risk type
\* were rated medium, and all three are priority items.
C12_Witness ==
    /\ Advised
    /\ Len(AdvisedOn) = 3
    /\ \A i \in DOMAIN AdvisedOn :
            /\ AdvisedOn[i].confidence = 80
            /\ AdvisedOn[i].type \in {"name", "zip_code", "organization"}
    /\ advice.result.risk_level = "medium"
    /\ Len(advice.result.priority_items) = 3

\* ------------------------------------------------------------------- C13
RECURSIVE SumOf(_)
SumOf(counts) ==
    IF DOMAIN counts = {} THEN 0
    ELSE LET k == CHOOSE k \in DOMAIN counts : TRUE
         IN  counts[k] + SumOf([x \in (DOMAIN counts) \ {k} |-> counts[x]])

\* How many of the items have a confidence c with lo <= c < hi.
ItemsWithin(items, lo, hi) ==
    Cardinality({i \in DOMAIN items :
                    lo <= items[i].confidence /\ items[i].confidence < hi})

\* The audit record of result r, returned for text txt, agrees with r.
AuditConsistent(r, txt) ==
    LET items == r.redacted_items
        audit == r.audit_trail
        buckets == audit.summary.by_confidence
    IN  /\ audit.summary.total_redactions = r.summary.total_redactions
        /\ r.summary.total_redactions = Len(items)
        /\ SumOf(r.summary.by_type) = Len(items)
        /\ SumOf(audit.summary.by_type) = Len(items)
        /\ \A t \in DOMAIN audit.summary.by_type :
                audit.summary.by_type[t] =
                    Cardinality({i \in DOMAIN items : items[i].type = t})
        /\ buckets.high + buckets.medium + buckets.low = Len(items)
        /\ buckets.high = ItemsWithin(items, 80, 101)
        /\ buckets.medium = ItemsWithin(items, 50, 80)
        /\ buckets.low = ItemsWithin(items, 0, 50)
        /\ audit.redacted_items = items
        /\ audit.original_length = Len(txt)
        /\ audit.redacted_length = Len(r.redacted_text)

\* C13: in every result of apply_redactions the audit total, the summary
\* total, the number of redacted items, the sum of the per-type counts and
\* high + medium + low are equal, every item falls in exactly one bucket
\* (high >= 0.8, medium 0.5 up to 0.8, low below 0.5), original_length is the
\* length of the text and redacted_length the length of the redacted text.
C13_AuditConsistent ==
    /\ CallOk => AuditConsistent(call.result, call.text)
    /\ (CallDone /\ again.status = "ok") => AuditConsistent(again, call.text)

\* A call redacted an item of confidence exactly 0.5 and one of at least 0.8,
\* under the labels style, so that the text changed length.
C13_Witness ==
    /\ CallOk
    /\ Len(Items) = 2
    /\ \E i, j \in DOMAIN Items :
            Items[i].confidence = 50 /\ Items[j].confidence >= 80
    /\ call.result.audit_trail.summary.by_confidence =
            [high |-> 1, medium |-> 1, low |-> 0]
    /\ call.result.audit_trail.redacted_length
            # call.result.audit_trail.original_length

\* ------------------------------------------------------------------- C14
IsDigitAt(k) == k \in DOMAIN text /\ text[k] \in Digits
IsWordCharAt(k) == k \in DOMAIN text /\ text[k] \in WordChars

\* Offsets p at which a word-bounded run of exactly 16 digits starts.
SixteenDigitRuns ==
    {p \in 0..(Len(text) - 16) :
        /\ \A k \in (p + 1)..(p + 16) : IsDigitAt(k)
        /\ ~IsWordCharAt(p)
        /\ ~IsWordCharAt(p + 17)}

\* C14: when the text holds a word-bounded run of exactly 16 digits without
\* separators, the final list holds a credit_card detection (0.85) spanning
\* all 16 digits: no match of another rule on part of them displaces it.
C14_CardRunDetected ==
    Returned =>
        \A p \in SixteenDigitRuns :
            \E i \in DOMAIN Final :
                /\ Final[i].type = "credit_card"
                /\ Final[i].confidence = 85
                /\ Final[i].start = p
                /\ Final[i].end = p + 16

\* ------------------------------------------------------------------- C15
RawTypes == {detections[i].type : i \in DOMAIN detections}

\* Every order in which the rules that matched can be applied.
RuleOrders(types) ==
    {o \in [1..Cardinality(types) -> types] : Range(o) = types}

\* The matches of rule t, in the order re.finditer gave them.
RECURSIVE MatchesOf(_, _, _)
MatchesOf(raw, t, i) ==
    IF i > Len(raw) THEN << >>
    ELSE (IF raw[i].type = t THEN <<raw[i]>> ELSE << >>)
         \o MatchesOf(raw, t, i + 1)

\* The raw list the rule loop builds when the rules run in the given order.
RECURSIVE RawUnder(_, _, _)
RawUnder(raw, order, k) ==
    IF k > Len(order) THEN << >>
    ELSE MatchesOf(raw, order[k], 1) \o RawUnder(raw, order, k + 1)

\* Matches of one rule are mutually non-overlapping, and matches of
\* different rules have different confidences.
OrderFreeInput ==
    \A i, j \in DOMAIN detections :
        i # j =>
            IF detections[i].type = detections[j].type
            THEN Apart(detections[i], detections[j])
            ELSE detections[i].confidence # detections[j].confidence

\* C15: when matches of one rule do not overlap and different rules have
\* different confidences, applying the rules in any other order leaves the
\* set of accepted detections as it is.
C15_RuleOrderIrrelevant ==
    (Returned /\ OrderFreeInput) =>
        \A order \in RuleOrders(RawTypes) :
            Range(RemoveOverlaps(RawUnder(detections, order, 1)))
                = Range(detectResult.detections)

\* detect_pii returned after two rules matched at the same start, a third
\* match overlapping them, so that the sorted walk depends on the rule order.
C15_Witness ==
    /\ Returned
    /\ OrderFreeInput
    /\ Len(detections) = 3
    /\ \E i, j \in DOMAIN detections :
            /\ detections[i].type # detections[j].type
            /\ detections[i].start = detections[j].start
            /\ \E order \in RuleOrders(RawTypes) :
                    SortByStart(RawUnder(detections, order, 1))
                        # SortByStart(detections)
    /\ Len(detectResult.detections) < 3

\* ------------------------------------------------------------------- C16
Dropped == {i \in DOMAIN detections : detections[i] \notin Range(Final)}

\* C16: every raw match that is absent from the final list overlaps at least
\* one detection of the final list, so that no matched span is left entirely
\* uncovered after a chain of evictions.
C16_DroppedOverlapsSurvivor ==
    Returned =>
        \A i \in Dropped :
            \E j \in DOMAIN Final : Overlaps(detections[i], Final[j])

====
